---- MODULE Spec2Model ----
(***************************************************************************)
(* Fire MIDI Macro Runner: the MacroRunner class (macro_runner.py), the    *)
(* action executor (macros.py) and the main program                        *)
(* (fire_midi_macro_runner.py) as state machines.                          *)
(*                                                                         *)
(* Python strings that the code parses (controller-ID keys, color strings, *)
(* action strings, paths) are sequences of one-character strings, so that  *)
(* int(), strip(), lower(), startswith() and slicing are computed.         *)
(* JSON / Python values are records tagged by the field t.                 *)
(***************************************************************************)
EXTENDS Integers, Sequences, FiniteSets, TLC

(***************************************************************************)
(* Python values                                                           *)
(***************************************************************************)
PyNone == [t |-> "None"]
PyInt(n) == [t |-> "int", v |-> n]
PyStr(s) == [t |-> "str", s |-> s]
\* a non-empty JSON list (truthy, neither int nor str nor dict)
PyList == [t |-> "list"]
\* an empty JSON list (falsy)
PyEmptyList == [t |-> "list0"]
\* dict.get on a key the dict does not hold
Absent == [t |-> "absent"]

EmptyMap == [x \in {} |-> 0]

\* dict[key] = value: a later store to the same key replaces the earlier one
DictSet(d, key, value) ==
    [x \in (DOMAIN d) \cup {key} |-> IF x = key THEN value ELSE d[x]]

\* Python truthiness of a value read from a document
Truthy(val) ==
    CASE val.t = "None" -> FALSE
      [] val.t = "absent" -> FALSE
      [] val.t = "int" -> val.v # 0
      [] val.t = "str" -> Len(val.s) > 0
      [] val.t = "list" -> TRUE
      [] val.t = "list0" -> FALSE
      [] OTHER -> TRUE

(***************************************************************************)
(* str methods and int()                                                   *)
(***************************************************************************)
Whitespace == {" "}
HexDigits == <<"0", "1", "2", "3", "4", "5", "6", "7", "8", "9",
               "a", "b", "c", "d", "e", "f">>
UpperHex == <<"0", "1", "2", "3", "4", "5", "6", "7", "8", "9",
              "A", "B", "C", "D", "E", "F">>

LowerChar(c) ==
    IF \E i \in 11..16 : UpperHex[i] = c
    THEN HexDigits[CHOOSE i \in 11..16 : UpperHex[i] = c]
    ELSE IF c = "X" THEN "x" ELSE c

\* str.lower()
Lower(s) == [i \in 1..Len(s) |-> LowerChar(s[i])]

\* s[n:]
Drop(s, n) == IF n >= Len(s) THEN <<>> ELSE SubSeq(s, n + 1, Len(s))

\* str.startswith(prefix), case-sensitive
StartsWith(s, prefix) ==
    /\ Len(s) >= Len(prefix)
    /\ SubSeq(s, 1, Len(prefix)) = prefix

RECURSIVE LStrip(_)
LStrip(s) ==
    IF s # <<>> /\ s[1] \in Whitespace THEN LStrip(Tail(s)) ELSE s

RECURSIVE RStrip(_)
RStrip(s) ==
    IF s # <<>> /\ s[Len(s)] \in Whitespace
    THEN RStrip(SubSeq(s, 1, Len(s) - 1))
    ELSE s

\* str.strip()
Strip(s) == RStrip(LStrip(s))

IsDigit(c, base) == \E i \in 1..base : HexDigits[i] = c
DigitVal(c) == (CHOOSE i \in 1..16 : HexDigits[i] = c) - 1

RECURSIVE DigitsValue(_, _, _)
DigitsValue(s, base, acc) ==
    IF s = <<>> THEN acc
    ELSE IF s[1] = "_" THEN DigitsValue(Tail(s), base, acc)
    ELSE DigitsValue(Tail(s), base, acc * base + DigitVal(s[1]))

\* the digit part of an int() literal: digits of the base, single
\* underscores between digits (and right after a base prefix)
DigitsOk(s, base, prefixed) ==
    /\ s # <<>>
    /\ \A i \in 1..Len(s) : s[i] = "_" \/ IsDigit(s[i], base)
    /\ s[Len(s)] # "_"
    /\ (s[1] = "_" => prefixed)
    /\ \A i \in 1..(Len(s) - 1) : ~(s[i] = "_" /\ s[i + 1] = "_")

\* int(s, base) for base 10 and 16: whitespace stripped, an optional sign,
\* for base 16 an optional 0x prefix, then the digits.  [ok |-> FALSE] is
\* ValueError.  (Case does not matter to int(), so the text is lowered once.)
ParseDigits(digits, prefixed, neg, base) ==
    IF DigitsOk(digits, base, prefixed)
    THEN [ok |-> TRUE,
          v |-> (IF neg THEN 0 - 1 ELSE 1) * DigitsValue(digits, base, 0)]
    ELSE [ok |-> FALSE, v |-> 0]

ParseBody(body, neg, base) ==
    IF base = 16 /\ StartsWith(body, <<"0", "x">>)
    THEN ParseDigits(Drop(body, 2), TRUE, neg, base)
    ELSE ParseDigits(body, FALSE, neg, base)

ParseSigned(s1, base) ==
    IF s1 # <<>> /\ s1[1] \in {"+", "-"}
    THEN ParseBody(Tail(s1), s1[1] = "-", base)
    ELSE ParseBody(s1, FALSE, base)

ParseInt(s, base) == ParseSigned(Lower(Strip(s)), base)

(***************************************************************************)
(* Configuration documents                                                 *)
(*                                                                         *)
(* A parsed document that is a JSON object is                              *)
(*   [t |-> "dict", default_color, control_macros, extra]                  *)
(* where a missing field is Absent, extra says whether the object holds    *)
(* some other field, and a control_macros that is a JSON object is         *)
(*   [t |-> "map", items |-> <<[k |-> key string, e |-> entry], ...>>]     *)
(* in document order with distinct key strings.  An entry is a PyStr (a    *)
(* bare action string), [t |-> "dict", action, color] or another value.    *)
(***************************************************************************)
Doc(default_color, control_macros, extra) ==
    [t |-> "dict", default_color |-> default_color,
     control_macros |-> control_macros, extra |-> extra]
Map(items) == [t |-> "map", items |-> items]
Item(k, e) == [k |-> k, e |-> e]
Entry(action, color) == [t |-> "dict", action |-> action, color |-> color]

\* the empty JSON object {}
EmptyDict == Doc(Absent, Absent, FALSE)

\* bool(document): what "if not self.macro_cfg" tests
DocTruthy(cfg) ==
    IF cfg.t = "dict"
    THEN cfg.default_color # Absent \/ cfg.control_macros # Absent \/ cfg.extra
    ELSE Truthy(cfg)

\* "0xFFFFFF", the default of cfg.get("default_color", ...)
DefaultColorString == <<"0", "x", "F", "F", "F", "F", "F", "F">>

(***************************************************************************)
(* MacroRunner.parse_color: [raised |-> TRUE] is the ValueError of int()   *)
(***************************************************************************)
Returned(val) == [raised |-> FALSE, v |-> val]
Raised == [raised |-> TRUE, v |-> PyNone]

IntOrRaise(parsed) ==
    IF parsed.ok THEN Returned(PyInt(parsed.v)) ELSE Raised

\* the three int(..., 16) calls: s[1:] after "#", otherwise s itself
ParseColorString(s) ==
    IntOrRaise(ParseInt(IF StartsWith(s, <<"0", "x">>) THEN s
                        ELSE IF StartsWith(s, <<"#">>) THEN Drop(s, 1)
                        ELSE s, 16))

parse_color(value) ==
    IF value.t = "None" \/ value.t = "absent" THEN Returned(PyNone)
    ELSE IF value.t = "int" THEN Returned(value)
    ELSE IF value.t = "str" THEN ParseColorString(Lower(Strip(value.s)))
    ELSE Returned(PyNone)

(***************************************************************************)
(* MacroRunner.build_control_macros                                        *)
(*                                                                         *)
(* The result is [raised, control_macros, control_colors, control_actions].*)
(* control_macros[note] is the action string kc bound in the stored        *)
(* closure (lambda kc=action: macros.sendkey(kc)).  When raised is TRUE    *)
(* the call ended in an exception and returned nothing.                    *)
(***************************************************************************)
Built(m, c, a) ==
    [raised |-> FALSE, control_macros |-> m, control_colors |-> c,
     control_actions |-> a]
BuildRaised ==
    [raised |-> TRUE, control_macros |-> EmptyMap, control_colors |-> EmptyMap,
     control_actions |-> EmptyMap]

StoreBinding_late_binding(acc, note, action, color_int) ==
    Built([x \in (DOMAIN acc.control_macros) \cup {note} |-> action],
          DictSet(acc.control_colors, note, color_int),
          DictSet(acc.control_actions, note, action))

\* the three stores at the end of one loop iteration
StoreBinding(acc, note, action, color_int) ==
    Built(DictSet(acc.control_macros, note, action),
          DictSet(acc.control_colors, note, color_int),
          DictSet(acc.control_actions, note, action))

\* color_int = self.parse_color(color_value), then the stores
StoreParsed(acc, note, action, color_int) ==
    IF color_int.raised THEN BuildRaised
    ELSE StoreBinding(acc, note, action, color_int.v)

BuildNote_falsy_color_unset(acc, note, entry, default_color) ==
    IF ~note.ok THEN acc
    ELSE IF entry.t = "str"
    THEN StoreBinding(acc, note.v, entry.s, default_color)
    ELSE IF entry.t = "dict"
    THEN IF entry.action.t # "str" THEN acc
         ELSE IF Truthy(entry.color)
         THEN StoreParsed(acc, note.v, entry.action.s, parse_color(entry.color))
         ELSE StoreBinding(acc, note.v, entry.action.s, PyNone)
    ELSE acc

\* the body of the loop once int(control_str) has returned or raised
BuildNote(acc, note, entry, default_color) ==
    IF ~note.ok THEN acc
    ELSE IF entry.t = "str"
    THEN StoreBinding(acc, note.v, entry.s, default_color)
    ELSE IF entry.t = "dict"
    THEN IF entry.action.t # "str" THEN acc
         ELSE IF Truthy(entry.color)
         THEN StoreParsed(acc, note.v, entry.action.s, parse_color(entry.color))
         ELSE StoreBinding(acc, note.v, entry.action.s, default_color)
    ELSE acc

\* one iteration of "for control_str, entry in raw.items()"
BuildEntry(acc, control_str, entry, default_color) ==
    BuildNote(acc, ParseInt(control_str, 10), entry, default_color)

RECURSIVE BuildLoop(_, _, _)
BuildLoop(acc, items, default_color) ==
    IF acc.raised \/ items = <<>> THEN acc
    ELSE BuildLoop(BuildEntry(acc, items[1].k, items[1].e, default_color),
                   Tail(items), default_color)

BuildRaw_requires_control_macros(raw, default_color) ==
    IF default_color.raised THEN BuildRaised
    ELSE IF raw = Absent THEN BuildRaised
    ELSE IF raw.t # "map" THEN BuildRaised
    ELSE BuildLoop(Built(EmptyMap, EmptyMap, EmptyMap), raw.items,
                   default_color.v)

\* from "raw = cfg.get(...)" on, default_color being parse_color's result
BuildRaw(raw, default_color) ==
    IF default_color.raised THEN BuildRaised
    ELSE IF raw = Absent THEN Built(EmptyMap, EmptyMap, EmptyMap)
    ELSE IF raw.t # "map" THEN BuildRaised  \* raw.items: AttributeError
    ELSE BuildLoop(Built(EmptyMap, EmptyMap, EmptyMap), raw.items,
                   default_color.v)

build_control_macros(cfg) ==
    IF cfg.t # "dict" THEN BuildRaised  \* cfg.get: AttributeError
    ELSE BuildRaw(cfg.control_macros,
                  parse_color(IF cfg.default_color = Absent
                              THEN PyStr(DefaultColorString)
                              ELSE cfg.default_color))

(***************************************************************************)
(* Files                                                                   *)
(*                                                                         *)
(* files maps each path to what is stored there: Missing (no such file),   *)
(* Garbage (a file json.load cannot parse, the empty file included) or the *)
(* parsed document.  The empty string names no file.                       *)
(***************************************************************************)
Missing == [t |-> "missing"]
Garbage == [t |-> "garbage"]

\* "default_macros.json", "macros_config.json", "midi_config.json"
PreferredPath == <<"d">>
FallbackPath == <<"m">>
MidiPath == <<"i">>
PathA == <<"a">>
PathB == <<"b">>
EmptyPath == <<>>

Exists(fs, path) == path \in DOMAIN fs /\ fs[path] # Missing

\* MacroRunner.load_json and the module-level load_json
load_json(fs, path) ==
    IF Exists(fs, path)
    THEN IF fs[path] = Garbage THEN EmptyDict ELSE fs[path]
    ELSE EmptyDict

(***************************************************************************)
(* MacroRunner: the object is the record self; a method is an operator     *)
(* from self (and the files) to [self, outcome, ret], outcome being        *)
(* "True", "False", "None" (a method returning nothing) or "raise".        *)
(***************************************************************************)
\* MacroRunner.__init__ with its default arguments
NewMacroRunner ==
    [midi_config_path |-> MidiPath,
     macros_config_path |-> FallbackPath,
     preferred_config_path |-> PreferredPath,
     midi_cfg |-> EmptyDict,
     macro_cfg |-> EmptyDict,
     control_macros |-> EmptyMap,
     control_colors |-> EmptyMap,
     control_actions |-> EmptyMap]

Result(self, outcome, ret) == [self |-> self, outcome |-> outcome, ret |-> ret]

SelectedPath_tries_fallback(self, fs, config_path) ==
    IF Truthy(config_path) THEN config_path.s
    ELSE IF DocTruthy(load_json(fs, self.preferred_config_path))
         THEN self.preferred_config_path
         ELSE self.macros_config_path

\* the document load_configuration selects; config_path is None or a str
SelectedPath(self, fs, config_path) ==
    IF Truthy(config_path) THEN config_path.s
    ELSE IF Exists(fs, self.preferred_config_path)
         THEN self.preferred_config_path
         ELSE self.macros_config_path

LoadBuilt_keeps_actions(s2, built) ==
    IF built.raised THEN Result(s2, "raise", EmptyMap)
    ELSE Result([s2 EXCEPT !.control_macros = built.control_macros,
                           !.control_colors = built.control_colors],
                "True", EmptyMap)

\* "self.control_macros, ... = self.build_control_macros(self.macro_cfg)"
\* and "return True"; nothing is stored when the build raises
LoadBuilt(s2, built) ==
    IF built.raised THEN Result(s2, "raise", EmptyMap)
    ELSE Result([s2 EXCEPT !.control_macros = built.control_macros,
                           !.control_colors = built.control_colors,
                           !.control_actions = built.control_actions],
                "True", EmptyMap)

LoadParsed_clears_on_failure(s1, macro_config_path) ==
    IF ~DocTruthy(s1.macro_cfg)
    THEN Result([s1 EXCEPT !.control_macros = EmptyMap,
                           !.control_colors = EmptyMap,
                           !.control_actions = EmptyMap], "False", EmptyMap)
    ELSE LoadBuilt([s1 EXCEPT !.macros_config_path = macro_config_path],
                   build_control_macros(s1.macro_cfg))

\* from "if not self.macro_cfg" on
LoadParsed(s1, macro_config_path) ==
    IF ~DocTruthy(s1.macro_cfg) THEN Result(s1, "False", EmptyMap)
    ELSE LoadBuilt([s1 EXCEPT !.macros_config_path = macro_config_path],
                   build_control_macros(s1.macro_cfg))

\* the two load_json calls
LoadSelected(self, fs, macro_config_path) ==
    LoadParsed([self EXCEPT
                    !.midi_cfg = load_json(fs, self.midi_config_path),
                    !.macro_cfg = load_json(fs, macro_config_path)],
               macro_config_path)

\* MacroRunner.load_configuration
load_configuration(self, fs, config_path) ==
    LoadSelected(self, fs, SelectedPath(self, fs, config_path))

Reloaded_reports_success(self, config_path, loaded) ==
    IF loaded.outcome = "raise" THEN loaded
    ELSE Result([loaded.self EXCEPT !.macros_config_path = config_path],
                "True", loaded.self.control_colors)

\* reload_configuration after "success = self.load_configuration(...)";
\* self is the object before the call, the source of the old_* snapshot
Reloaded(self, config_path, loaded) ==
    IF loaded.outcome = "raise" THEN loaded
    ELSE IF loaded.outcome = "False"
    THEN Result([loaded.self EXCEPT
                     !.macro_cfg = self.macro_cfg,
                     !.control_macros = self.control_macros,
                     !.control_colors = self.control_colors,
                     !.control_actions = self.control_actions],
                "False", self.control_colors)
    ELSE Result([loaded.self EXCEPT !.macros_config_path = config_path],
                "True", loaded.self.control_colors)

reload_configuration_skips_current(self, fs, config_path) ==
    IF config_path = self.macros_config_path
    THEN Result(self, "False", self.control_colors)
    ELSE Reloaded(self, config_path,
                  load_configuration(self, fs, PyStr(config_path)))

\* MacroRunner.reload_configuration; config_path is a str
reload_configuration(self, fs, config_path) ==
    Reloaded(self, config_path,
             load_configuration(self, fs, PyStr(config_path)))

\* MacroRunner.get_color_map
get_color_map(self) == self.control_colors

(***************************************************************************)
(* The dict objects behind the three maps: h is the sequence of the        *)
(* contents of every dict object created so far, r the positions in h of   *)
(* the objects self.control_macros, self.control_colors and                *)
(* self.control_actions refer to.                                          *)
(***************************************************************************)
\* "self.control_macros = {}" and the two lines after it in __init__
NewMaps ==
    [heap |-> <<EmptyMap, EmptyMap, EmptyMap>>,
     refs |-> [control_macros |-> 1, control_colors |-> 2,
               control_actions |-> 3]]

StoreMaps_in_place(h, r, built) ==
    [heap |-> [i \in DOMAIN h |->
                  IF i = r.control_macros THEN built.control_macros
                  ELSE IF i = r.control_colors THEN built.control_colors
                  ELSE IF i = r.control_actions THEN built.control_actions
                  ELSE h[i]],
     refs |-> r]

\* build_control_macros fills three dicts it has just created and
\* load_configuration binds the three attributes to them
StoreMaps(h, r, built) ==
    [heap |-> h \o <<built.control_macros, built.control_colors,
                     built.control_actions>>,
     refs |-> [control_macros |-> Len(h) + 1, control_colors |-> Len(h) + 2,
               control_actions |-> Len(h) + 3]]

\* no assignment to the three attributes, or the assignment of the old_*
\* references back to them
KeptMaps(h, r) == [heap |-> h, refs |-> r]

(***************************************************************************)
(* macros.py: the action executor                                          *)
(*                                                                         *)
(* config_reload_callback is the module global _config_reload_callback:    *)
(* "None", or "reload_configuration" for the runner's bound method.        *)
(* A provider call is recorded as [kind, arg]; sendkey returns             *)
(* [self, provider, callback_calls, raised, error].                        *)
(***************************************************************************)
RunPrefix == <<"R", "U", "N", "|">>
TypePrefix == <<"T", "Y", "P", "E", "|">>
SoundPrefix == <<"S", "O", "U", "N", "D", "|">>
ConfigPrefix == <<"C", "O", "N", "F", "I", "G", "|">>

Provider(kind, arg) == [kind |-> kind, arg |-> arg]
NoProvider == Provider("none", <<>>)

\* what a provider call leaves: raised says an exception left the call,
\* error that a "[Macro Error]" line was printed
Sent(self, provider, callback_calls) ==
    [self |-> self, provider |-> provider, callback_calls |-> callback_calls,
     raised |-> FALSE, error |-> FALSE]

\* macros.type_text: keyboard.write inside its own try/except
type_text(self, text, fails) ==
    [Sent(self, Provider("type_text", text), <<>>) EXCEPT !.error = fails]

\* macros.run_program: os.startfile / subprocess.Popen inside its own
\* try/except
run_program(self, path_or_name, fails) ==
    [Sent(self, Provider("run_program", path_or_name), <<>>)
         EXCEPT !.error = fails]

\* macros.play_sound: playsound inside its own try/except
play_sound(self, path, fails) ==
    [Sent(self, Provider("play_sound", path), <<>>) EXCEPT !.error = fails]

\* keyboard.send(key): the library call, nothing around it
keyboard_send(self, key, fails) ==
    [Sent(self, Provider("keyboard.send", key), <<>>) EXCEPT !.raised = fails]

\* "return _config_reload_callback(config_path)"; r is what the runner's
\* reload_configuration did
CallbackReturned(r, config_path) ==
    [Sent(r.self, Provider("reload_config", config_path), <<config_path>>)
         EXCEPT !.raised = (r.outcome = "raise")]

reload_config_unguarded(self, fs, callback, config_path) ==
    CallbackReturned(reload_configuration(self, fs, config_path), config_path)

\* macros.reload_config
reload_config(self, fs, callback, config_path) ==
    IF callback = "reload_configuration"
    THEN CallbackReturned(reload_configuration(self, fs, config_path),
                          config_path)
    ELSE [Sent(self, Provider("reload_config", config_path), <<>>)
              EXCEPT !.error = TRUE]

Route_whole_string(self, fs, callback, key, fails) ==
    IF StartsWith(key, RunPrefix) THEN run_program(self, key, fails)
    ELSE IF StartsWith(key, TypePrefix) THEN type_text(self, key, fails)
    ELSE IF StartsWith(key, SoundPrefix) THEN play_sound(self, key, fails)
    ELSE IF StartsWith(key, ConfigPrefix)
    THEN reload_config(self, fs, callback, key)
    ELSE keyboard_send(self, key, fails)

\* the body of the try in macros.sendkey
Route(self, fs, callback, key, fails) ==
    IF StartsWith(key, RunPrefix) THEN run_program(self, Drop(key, 4), fails)
    ELSE IF StartsWith(key, TypePrefix)
    THEN type_text(self, Drop(key, 5), fails)
    ELSE IF StartsWith(key, SoundPrefix)
    THEN play_sound(self, Drop(key, 6), fails)
    ELSE IF StartsWith(key, ConfigPrefix)
    THEN reload_config(self, fs, callback, Drop(key, 7))
    ELSE keyboard_send(self, key, fails)

Caught_reraises(sent) == sent

\* "except Exception as e: print(...)" of macros.sendkey
Caught(sent) ==
    [sent EXCEPT !.raised = FALSE, !.error = sent.error \/ sent.raised]

\* macros.sendkey; fails says whether the external library call raises
sendkey(self, fs, callback, key, fails) ==
    Caught(Route(self, fs, callback, key, fails))

(***************************************************************************)
(* MacroRunner.handle_message                                              *)
(*                                                                         *)
(* msg is [type, note, velocity].  The result is                           *)
(* [self, outcome, invoked, provider, callback_calls, log, error]: invoked *)
(* is the sequence of action strings handed to sendkey, log the diagnostic *)
(* printed ("trigger", "unused" or "none"), error whether the action       *)
(* printed a "[Macro Error]" line.                                         *)
(***************************************************************************)
Message(type, note, velocity) ==
    [type |-> type, note |-> note, velocity |-> velocity]

IsPress_any_note_on(msg) == msg.type = "note_on"

\* msg.type == "note_on" and msg.velocity > 0
IsPress(msg) == msg.type = "note_on" /\ msg.velocity > 0

Handled(self, outcome, invoked, provider, callback_calls, log) ==
    [self |-> self, outcome |-> outcome, invoked |-> invoked,
     provider |-> provider, callback_calls |-> callback_calls, log |-> log,
     error |-> FALSE]

\* "self.control_macros[control_id]()": the closure calls sendkey(kc)
Triggered(key, sent) ==
    [Handled(sent.self, IF sent.raised THEN "raise" ELSE "None", <<key>>,
             sent.provider, sent.callback_calls, "trigger")
         EXCEPT !.error = sent.error]

handle_message(self, fs, callback, msg, fails) ==
    IF IsPress(msg)
    THEN IF msg.note \in DOMAIN self.control_macros
         THEN IF msg.note \notin DOMAIN self.control_actions
              THEN Handled(self, "raise", <<>>, NoProvider, <<>>, "none")
              ELSE Triggered(self.control_macros[msg.note],
                             sendkey(self, fs, callback,
                                     self.control_macros[msg.note], fails))
         ELSE Handled(self, "None", <<>>, NoProvider, <<>>, "unused")
    ELSE Handled(self, "None", <<>>, NoProvider, <<>>, "none")

(***************************************************************************)
(* fire_midi_macro_runner.py: main and monitor_device                      *)
(*                                                                         *)
(* The module-level load_json, parse_color, build_control_macros and       *)
(* handle_message are the same code as MacroRunner's methods, working on   *)
(* main's locals control_macros and control_actions instead of self's.     *)
(***************************************************************************)
\* the record of a drain after one more message
Drained(acc, h) ==
    [Handled(h.self, h.outcome, acc.invoked \o h.invoked,
             IF h.provider = NoProvider THEN acc.provider ELSE h.provider,
             acc.callback_calls \o h.callback_calls,
             IF h.log = "none" THEN acc.log ELSE h.log)
         EXCEPT !.error = acc.error \/ h.error]

\* "for msg in port.iter_pending(): handle_message(msg, ...)": acc is the
\* Handled record of the messages dispatched so far, fails[i] says whether
\* the library call of the i-th message raises; an exception leaving
\* handle_message ends the loop
RECURSIVE Drain(_, _, _, _, _)
Drain(acc, fs, callback, msgs, fails) ==
    IF msgs = <<>> \/ acc.outcome = "raise" THEN acc
    ELSE Drain(Drained(acc, handle_message(acc.self, fs, callback, msgs[1],
                                           fails[1])),
               fs, callback, Tail(msgs), Tail(fails))

\* midi_cfg.get("device_name")
stored_name(cfg) == IF cfg.t = "midi" THEN cfg.device_name ELSE PyNone

\* midi_cfg["device_name"] = port_name
WithDevice(name) == [t |-> "midi", device_name |-> PyStr(name)]

(***************************************************************************)
(* fire_code.py: the lighting driver                                       *)
(*                                                                         *)
(* pads maps each pad index 0..63 to the [r, g, b] bytes of the last       *)
(* set-color message sent for it, or to PyNone when none was sent since    *)
(* the process started (the pad shows whatever it showed before).          *)
(***************************************************************************)
PADSTART == 54
PADEND == 117

PadIndexes == 0..(PADEND - PADSTART)

color_to_rgb_unmasked(color) ==
    [r |-> color \div 65536,
     g |-> (color \div 256) % 256,
     b |-> color % 256]

\* (color & 0xFF0000) >> 16, (color & 0x00FF00) >> 8, color & 0x0000FF
color_to_rgb(color) ==
    [r |-> (color \div 65536) % 256,
     g |-> (color \div 256) % 256,
     b |-> color % 256]

Clamp(x) == IF x < 0 THEN 0 ELSE IF x > 255 THEN 255 ELSE x

rgb_to_color(r, g, b) == Clamp(r) * 65536 + Clamp(g) * 256 + Clamp(b)

\* int(channel / 256 * 128)
Scale_rounds_up(channel) == (channel * 128 + 128) \div 256

Scale(channel) == (channel * 128) \div 256

ScaledColor(rgb) == rgb_to_color(Scale(rgb.r), Scale(rgb.g), Scale(rgb.b))

color_to_fire_color_keeps_scaled(color) ==
    IF \A c \in {color_to_rgb(color).r, color_to_rgb(color).g,
                 color_to_rgb(color).b} : c < 128
    THEN color
    ELSE ScaledColor(color_to_rgb(color))

color_to_fire_color(color) == ScaledColor(color_to_rgb(color))

\* "bytes = [padIdx, r, g, b]" with padIdx already reduced by PADSTART
PadBytes(pad, rgb) == [pad |-> pad, rgb |-> rgb]

PadMessages_half_open(padIdx, color) ==
    IF padIdx < PADSTART \/ padIdx >= PADEND THEN <<>>
    ELSE <<PadBytes(padIdx - PADSTART,
                    color_to_rgb(color_to_fire_color(color)))>>

\* the set-color messages one call of fire_code.set_pad_color hands to
\* send_msg_to_device
PadMessages(padIdx, color) ==
    IF padIdx < PADSTART \/ padIdx > PADEND THEN <<>>
    ELSE <<PadBytes(padIdx - PADSTART,
                    color_to_rgb(color_to_fire_color(color)))>>

\* FIRE_PORT.send for each message: the pad shows the bytes sent last
RECURSIVE Deliver(_, _)
Deliver(p, msgs) ==
    IF msgs = <<>> THEN p
    ELSE Deliver([p EXCEPT ![msgs[1].pad] = msgs[1].rgb], Tail(msgs))

\* fire_code.set_pad_color on an open port
set_pad_color(p, padIdx, color) == Deliver(p, PadMessages(padIdx, color))

\* fire_code.init_port, its effect on the pads (the control_change 0x7F it
\* sends first is not a set-color message and is not recorded):
\* "for pad in range(PADSTART, PADEND): set_pad_color(pad, 0x000000)";
\* each call writes the one pad it names
init_port(p) ==
    [i \in PadIndexes |->
        IF i + PADSTART \in PADSTART..(PADEND - 1)
        THEN set_pad_color(p, i + PADSTART, 0)[i]
        ELSE p[i]]

\* initialize_pad_colors: a color that is None is not painted
RECURSIVE PaintPads(_, _, _)
PaintPads(p, control_colors, notes) ==
    IF notes = {} THEN p
    ELSE LET midiId == CHOOSE n \in notes : TRUE
         IN  PaintPads(IF control_colors[midiId] = PyNone THEN p
                       ELSE set_pad_color(p, midiId, control_colors[midiId].v),
                       control_colors, notes \ {midiId})

initialize_pad_colors(p, control_colors) ==
    PaintPads(p, control_colors, DOMAIN control_colors)

(***************************************************************************)
(* The documents and events the model runs on                              *)
(***************************************************************************)
\* "RUN|n", "TYPE|h", "SOUND|s", "f3", "CONFIG|a", "CONFIG|b", "CONFIG|"
ActRun == <<"R", "U", "N", "|", "n">>
ActType == <<"T", "Y", "P", "E", "|", "h">>
ActSound == <<"S", "O", "U", "N", "D", "|", "s">>
ActKeys == <<"f", "3">>
ActConfigA == <<"C", "O", "N", "F", "I", "G", "|", "a">>
ActConfigB == <<"C", "O", "N", "F", "I", "G", "|", "b">>
ActConfigBare == <<"C", "O", "N", "F", "I", "G", "|">>

\* {"default_color": "#112233", "control_macros": {"60": "RUN|n",
\*  "61": {"action": "TYPE|h", "color": "0xFF0000"}, "62": "CONFIG|a",
\*  "63": "CONFIG|"}}
DocFallback ==
    Doc(PyStr(<<"#", "1", "1", "2", "2", "3", "3">>),
        Map(<<Item(<<"6", "0">>, PyStr(ActRun)),
              Item(<<"6", "1">>,
                   Entry(PyStr(ActType),
                         PyStr(<<"0", "x", "F", "F", "0", "0", "0", "0">>))),
              Item(<<"6", "2">>, PyStr(ActConfigA)),
              Item(<<"6", "3">>, PyStr(ActConfigBare))>>),
        FALSE)

\* {"control_macros": {"60": "f3", "62": "CONFIG|b"}}
DocPreferred ==
    Doc(Absent,
        Map(<<Item(<<"6", "0">>, PyStr(ActKeys)),
              Item(<<"6", "2">>, PyStr(ActConfigB))>>),
        FALSE)

\* {"default_color": 255, "control_macros": {"61": {"action": "SOUND|s",
\*  "color": 0}, " 62": "CONFIG|a", "x": "f3", "64": 5,
\*  "65": {"action": 1}}}
DocB ==
    Doc(PyInt(255),
        Map(<<Item(<<"6", "1">>, Entry(PyStr(ActSound), PyInt(0))),
              Item(<<" ", "6", "2">>, PyStr(ActConfigA)),
              Item(<<"x">>, PyStr(ActKeys)),
              Item(<<"6", "4">>, PyInt(5)),
              Item(<<"6", "5">>, Entry(PyInt(1), Absent))>>),
        FALSE)

\* {"control_macros": {"60": "TYPE|h", "62": "CONFIG|b", "63": "CONFIG|"}}
DocA ==
    Doc(Absent,
        Map(<<Item(<<"6", "0">>, PyStr(ActType)),
              Item(<<"6", "2">>, PyStr(ActConfigB)),
              Item(<<"6", "3">>, PyStr(ActConfigBare))>>),
        FALSE)

\* {"default_color": "0x00FF00"}: parses, has no control_macros field
DocNoMacros ==
    Doc(PyStr(<<"0", "x", "0", "0", "F", "F", "0", "0">>), Absent, FALSE)

\* {"name": "x"}: some other field only
DocExtraOnly == Doc(Absent, Absent, TRUE)

\* {"default_color": "zz"}: no control_macros, a default color int() rejects
DocNoMacrosBadDefault == Doc(PyStr(<<"z", "z">>), Absent, FALSE)

\* {"control_macros": {"60": "f3", "61": {"action": "f3", "color": "zz"}}}
DocBadColor ==
    Doc(Absent,
        Map(<<Item(<<"6", "0">>, PyStr(ActKeys)),
              Item(<<"6", "1">>, Entry(PyStr(ActKeys), PyStr(<<"z", "z">>)))>>),
        FALSE)

\* {"device_name": "F"}
MidiDoc == [t |-> "midi", device_name |-> PyStr(<<"F">>)]

\* what the reload target PathA may hold
TargetContents ==
    {Missing, Garbage, EmptyDict, PyEmptyList, PyList, DocA, DocNoMacros,
     DocExtraOnly, DocNoMacrosBadDefault, DocBadColor}

FileSystems ==
    {[p \in {PreferredPath, FallbackPath, MidiPath, PathA, PathB} |->
         CASE p = PreferredPath -> pref
           [] p = FallbackPath -> fall
           [] p = MidiPath -> MidiDoc
           [] p = PathA -> a
           [] OTHER -> DocB] :
     pref \in {Missing, Garbage, DocPreferred}, fall \in {DocFallback},
     a \in TargetContents}

\* the documents build_control_macros is applied to in SpecBuild: every
\* control_macros of at most MaxEntries entries with distinct key strings
MaxEntries == 2

\* "60", "61", " 60" (int() strips it to 60), "x"
KeyStrings == {<<"6", "0">>, <<"6", "1">>, <<" ", "6", "0">>, <<"x">>}

EntryValues ==
    {PyStr(ActRun),
     Entry(PyStr(ActType), Absent),
     Entry(PyStr(ActType), PyStr(<<"0", "x", "F", "F", "0", "0", "0", "0">>)),
     Entry(PyStr(ActSound), PyInt(0)),
     Entry(PyStr(ActSound), PyStr(<<>>)),
     Entry(PyStr(ActRun), PyNone),
     Entry(PyStr(ActKeys), PyStr(<<"z", "z">>)),
     Entry(PyInt(1), Absent),
     Entry(Absent, Absent),
     PyInt(5)}

ItemSeqs ==
    UNION {{items \in [1..n -> {Item(k, e) : k \in KeyStrings,
                                            e \in EntryValues}] :
                \A i, j \in 1..n : i # j => items[i].k # items[j].k} :
           n \in 0..MaxEntries}

BuildDocuments ==
    {Doc(dc, Map(items), FALSE) :
         dc \in {Absent, PyStr(<<"#", "1", "1", "2", "2", "3", "3">>),
                 PyStr(<<"z", "z">>), PyNone, PyList},
         items \in ItemSeqs}
    \cup {Doc(Absent, Absent, TRUE), Doc(Absent, PyList, FALSE), PyList}

LoadArgs == {PyNone, PyStr(EmptyPath), PyStr(PathA), PyStr(PathB)}
ReloadArgs == {EmptyPath, PathA, PathB, FallbackPath}

\* what main finds on disk and what mido.get_input_names() lists
MainFileSystems ==
    {[p \in {PreferredPath, FallbackPath, MidiPath, PathA, PathB} |->
         CASE p = PreferredPath -> DocPreferred
           [] p = FallbackPath -> fall
           [] p = MidiPath -> midi
           [] p = PathA -> a
           [] OTHER -> DocB] :
     fall \in {DocFallback, DocBadColor, Missing},
     midi \in {Missing, WithDevice(<<"F">>)},
     a \in {DocA}}

DeviceLists == {<<>>, <<<<"G">>>>, <<<<"G">>, <<"F">>>>}

MaxPending == 2

MainMessages ==
    {Message("note_on", n, 100) : n \in {60, 62, 999}}
    \cup {Message("note_on", 62, 0)}

\* the events that arrive in SpecLoop
LoopMessages ==
    {Message("note_on", n, 100) : n \in {60, 62, 999}}
    \cup {Message("note_on", 60, 0)}

\* controller-IDs and colors handed to set_pad_color
PadIds == {0, 53, 54, 55, 116, 117, 118, 200}

\* 0xFFFFFF, 0x000000, 0x112233, 0x010203, 0xFF0000, 0x80FE7F, and four
\* integers that are no 24-bit colors: -1, -0xFF0100, 0x180FE7F, 0x7FFFFFFF
PadColors ==
    {16777215, 0, 1122867, 66051, 16711680, 8453759,
     -1, -16711936, 25230975, 2147483647}

MaxPadCalls == 2

\* the colors color_to_fire_color is applied to in SpecColor: every value
\* of one channel with the corners of the other two
Colors24 ==
    {rgb_to_color(r, g, b) : r \in 0..255, g \in {0, 1, 255}, b \in {0, 2, 255}}

\* how many times the three maps are replaced in SpecAlias
MaxSwaps == 2

\* how many times color_to_fire_color is applied to one color
MaxApplications == 2

\* action strings handed to sendkey: a prefix-like head and a payload
SendHeads ==
    {RunPrefix, TypePrefix, SoundPrefix, ConfigPrefix,
     <<"r", "u", "n", "|">>, <<"T", "y", "p", "e", "|">>,
     <<"R", "U", "N">>, <<" ", "R", "U", "N", "|">>,
     <<"c", "o", "n", "f", "i", "g", "|">>, <<>>}

SendPayloads == {<<>>, <<"a">>, <<"b">>, <<"T", "Y", "P", "E", "|", "h">>}

SendKeys == {head \o payload : head \in SendHeads, payload \in SendPayloads}

Notes == {60, 61, 62, 63, 999}
Messages ==
    {Message("note_on", n, v) : n \in Notes, v \in {0, 100}}
    \cup {Message("note_off", n, 64) : n \in {60, 62}}
    \cup {Message("control_change", 60, 0)}

(***************************************************************************)
(* State                                                                   *)
(***************************************************************************)
VARIABLES
    files,                  \* the documents on disk
    midi_cfg,               \* MacroRunner.midi_cfg
    macro_cfg,              \* MacroRunner.macro_cfg
    macros_config_path,     \* MacroRunner.macros_config_path
    control_macros,         \* MacroRunner.control_macros: note -> bound kc
    control_colors,         \* MacroRunner.control_colors
    control_actions,        \* MacroRunner.control_actions
    config_reload_callback, \* macros._config_reload_callback
    last,                   \* the last call: its arguments, result, effects
    build_cfg,              \* SpecBuild: the document handed to the builder
    build_result,           \* SpecBuild: what build_control_macros returned
    main_pc,                \* SpecMain: where main() is
    devices,                \* SpecMain: mido.get_input_names()
    port_name,              \* SpecMain: main's port_name
    input_open,             \* SpecMain: monitor_device holds the input port
    FIRE_PORT,              \* SpecMain: fire_code.FIRE_PORT
    pads,                   \* SpecMain: the color bytes last sent per pad
    pending,                \* SpecMain: events port.iter_pending() will yield
    pad_call,               \* SpecPad: the last set_pad_color call
    scaled,                 \* SpecColor: a color and its successive scalings
    heap,                   \* SpecAlias: the contents of each dict object
    refs,                   \* SpecAlias: the objects self.control_* refer to
    held                    \* SpecAlias: the color map a caller was handed

runnerVars == <<files, midi_cfg, macro_cfg, macros_config_path,
                control_macros, control_colors, control_actions,
                config_reload_callback, last>>
buildVars == <<build_cfg, build_result>>
mainVars == <<main_pc, devices, port_name, input_open, FIRE_PORT, pads,
              pending>>
auxVars == <<scaled, heap, refs, held>>
vars == <<runnerVars, buildVars, mainVars, pad_call, auxVars>>

\* the MacroRunner object in the current state
Self ==
    [midi_config_path |-> MidiPath,
     macros_config_path |-> macros_config_path,
     preferred_config_path |-> PreferredPath,
     midi_cfg |-> midi_cfg,
     macro_cfg |-> macro_cfg,
     control_macros |-> control_macros,
     control_colors |-> control_colors,
     control_actions |-> control_actions]

SetSelf(self) ==
    /\ midi_cfg' = self.midi_cfg
    /\ macro_cfg' = self.macro_cfg
    /\ macros_config_path' = self.macros_config_path
    /\ control_macros' = self.control_macros
    /\ control_colors' = self.control_colors
    /\ control_actions' = self.control_actions

\* last: the call op(arg) made on the object pre, what it returned (outcome,
\* ret) and what it did (invoked, provider, callback_calls, log); again
\* says whether the call before it was the same reload, and how that ended;
\* error, whether a "[Macro Error]" line was printed, after_error whether
\* the call before it was a dispatch that printed one
Call(op, arg, pre, outcome, ret, invoked, provider, callback_calls, log) ==
    [op |-> op, arg |-> arg, pre |-> pre, outcome |-> outcome, ret |-> ret,
     invoked |-> invoked, provider |-> provider,
     callback_calls |-> callback_calls, log |-> log, error |-> FALSE,
     after_error |-> FALSE,
     again |-> [same |-> FALSE, outcome |-> "None"]]

\* the last call was a dispatch whose action failed
MessageFailed == last.op = "handle_message" /\ last.error

Repeats(op, arg) ==
    [same |-> last.op = op /\ last.arg = arg,
     outcome |-> IF last.op = op /\ last.arg = arg THEN last.outcome
                 ELSE "None"]

NotBuilt == [done |-> FALSE, built |-> BuildRaised]

\* no pad has been sent a color
PadsUnset == [i \in PadIndexes |-> PyNone]

\* no dict object is tracked
NoRefs == [control_macros |-> 0, control_colors |-> 0, control_actions |-> 0]

\* no caller holds a color map
NotHeld == [ref |-> 0, contents |-> EmptyMap]

\* set_pad_color has not been called
NoPadCall ==
    [calls |-> 0, padIdx |-> 0, color |-> 0, port_open |-> FALSE,
     outcome |-> "None", sent |-> <<>>, pre |-> PadsUnset]

Init ==
    /\ build_cfg = EmptyDict
    /\ build_result = NotBuilt
    /\ main_pc = "off"
    /\ devices = <<>>
    /\ port_name = PyNone
    /\ input_open = FALSE
    /\ FIRE_PORT = PyNone
    /\ pads = PadsUnset
    /\ pending = <<>>
    /\ pad_call = NoPadCall
    /\ scaled = <<>>
    /\ heap = <<>>
    /\ refs = NoRefs
    /\ held = NotHeld
    /\ files \in FileSystems
    /\ midi_cfg = NewMacroRunner.midi_cfg
    /\ macro_cfg = NewMacroRunner.macro_cfg
    /\ macros_config_path = NewMacroRunner.macros_config_path
    /\ control_macros = NewMacroRunner.control_macros
    /\ control_colors = NewMacroRunner.control_colors
    /\ control_actions = NewMacroRunner.control_actions
    /\ config_reload_callback = "None"
    /\ last = Call("init", PyNone, NewMacroRunner, "None", EmptyMap, <<>>,
                   NoProvider, <<>>, "none")

\* runner.load_configuration(config_path)
LoadConfiguration(config_path) ==
    \E r \in {load_configuration(Self, files, config_path)} :
        /\ SetSelf(r.self)
        /\ last' = Call("load_configuration", config_path, Self, r.outcome,
                        EmptyMap, <<>>, NoProvider, <<>>, "none")
        /\ UNCHANGED <<files, config_reload_callback>>

\* runner.reload_configuration(config_path)
ReloadConfiguration(config_path) ==
    \E r \in {reload_configuration(Self, files, config_path)} :
        /\ SetSelf(r.self)
        /\ last' = [Call("reload_configuration", PyStr(config_path), Self,
                         r.outcome, r.ret, <<>>, NoProvider, <<>>, "none")
                        EXCEPT !.again = Repeats("reload_configuration",
                                                 PyStr(config_path))]
        /\ UNCHANGED <<files, config_reload_callback>>

\* runner.handle_message(msg); the library the action calls raises or not
HandleMessage(msg, fails) ==
    \E r \in {handle_message(Self, files, config_reload_callback, msg,
                              fails)} :
        /\ SetSelf(r.self)
        /\ last' = [Call("handle_message", msg, Self, r.outcome, EmptyMap,
                         r.invoked, r.provider, r.callback_calls, r.log)
                        EXCEPT !.error = r.error,
                               !.after_error = MessageFailed]
        /\ UNCHANGED <<files, config_reload_callback>>

\* macros.set_config_reload_callback(callback)
SetConfigReloadCallback(callback) ==
    /\ config_reload_callback' = callback
    /\ last' = Call("set_config_reload_callback", PyNone, Self, "None",
                    EmptyMap, <<>>, NoProvider, <<>>, "none")
    /\ UNCHANGED <<files, midi_cfg, macro_cfg, macros_config_path,
                   control_macros, control_colors, control_actions>>

Next ==
    /\ \/ \E config_path \in LoadArgs : LoadConfiguration(config_path)
       \/ \E config_path \in ReloadArgs : ReloadConfiguration(config_path)
       \/ \E msg \in Messages, fails \in BOOLEAN : HandleMessage(msg, fails)
       \/ \E callback \in {"None", "reload_configuration"} :
              SetConfigReloadCallback(callback)
    /\ UNCHANGED <<buildVars, mainVars, pad_call, auxVars>>

Spec == Init /\ [][Next]_vars

(***************************************************************************)
(* SpecSend: macros.sendkey called directly on action strings, with the   *)
(* runner's reload_configuration registered as the callback or not         *)
(***************************************************************************)
\* a constructed runner; the reload target holds a good document, one
\* whose build raises, or nothing
InitSend ==
    /\ Init
    /\ files[PreferredPath] = DocPreferred
    /\ files[PathA] \in {DocA, DocBadColor, Missing}

\* macros.sendkey(key)
SendKey(key, fails) ==
    \E r \in {sendkey(Self, files, config_reload_callback, key, fails)} :
        /\ SetSelf(r.self)
        /\ last' = [Call("sendkey", PyStr(key), Self,
                         IF r.raised THEN "raise" ELSE "None", EmptyMap,
                         <<key>>, r.provider, r.callback_calls, "none")
                        EXCEPT !.error = r.error]
        /\ UNCHANGED <<files, config_reload_callback>>

NextSend ==
    /\ \/ \E key \in SendKeys, fails \in BOOLEAN : SendKey(key, fails)
       \/ \E callback \in {"None", "reload_configuration"} :
              SetConfigReloadCallback(callback)
       \/ LoadConfiguration(PyNone)
    /\ UNCHANGED <<buildVars, mainVars, pad_call, auxVars>>

SpecSend == InitSend /\ [][NextSend]_vars

(***************************************************************************)
(* SpecPad: fire_code.init_port and fire_code.set_pad_color called         *)
(* directly; FIRE_PORT is None until init_port has opened it               *)
(***************************************************************************)
InitPad ==
    /\ Init
    /\ files = CHOOSE fs \in FileSystems : TRUE

\* fire_code.init_port(port_name)
OpenPort ==
    /\ FIRE_PORT = PyNone
    /\ FIRE_PORT' = PyStr(<<"F">>)
    /\ pads' = init_port(pads)
    /\ UNCHANGED <<runnerVars, buildVars, main_pc, devices, port_name,
                   input_open, pending, pad_call, auxVars>>

\* fire_code.set_pad_color(padIdx, color); with FIRE_PORT None an accepted
\* padIdx ends in the AttributeError of FIRE_PORT.send
SetPadColor(padIdx, color) ==
    /\ pad_call.calls < MaxPadCalls
    /\ \E msgs \in {IF FIRE_PORT = PyNone THEN <<>>
                     ELSE PadMessages(padIdx, color)} :
          /\ pads' = Deliver(pads, msgs)
          /\ pad_call' = [calls |-> pad_call.calls + 1, padIdx |-> padIdx,
                          color |-> color, port_open |-> FIRE_PORT # PyNone,
                          outcome |-> IF FIRE_PORT = PyNone
                                         /\ PadMessages(padIdx, color) # <<>>
                                      THEN "raise" ELSE "None",
                          sent |-> msgs, pre |-> pads]
    /\ UNCHANGED <<runnerVars, buildVars, main_pc, devices, port_name,
                   input_open, FIRE_PORT, pending, auxVars>>

NextPad ==
    \/ OpenPort
    \/ \E padIdx \in PadIds, color \in PadColors : SetPadColor(padIdx, color)

SpecPad == InitPad /\ [][NextPad]_vars

(***************************************************************************)
(* SpecColor: fire_code.color_to_fire_color applied to a 24-bit color and  *)
(* then to its own results; scaled is <<x, f(x), f(f(x)), ...>>            *)
(***************************************************************************)
InitColor ==
    /\ Init
    /\ files = CHOOSE fs \in FileSystems : TRUE

\* fire_code.color_to_fire_color(color)
ColorToFireColor(color) ==
    /\ scaled = <<>>
    /\ scaled' = <<color, color_to_fire_color(color)>>
    /\ UNCHANGED <<runnerVars, buildVars, mainVars, pad_call, heap, refs,
                   held>>

\* fire_code.color_to_fire_color applied to the value it returned last
ColorToFireColorAgain ==
    /\ scaled # <<>>
    /\ Len(scaled) <= MaxApplications
    /\ scaled' = Append(scaled, color_to_fire_color(scaled[Len(scaled)]))
    /\ UNCHANGED <<runnerVars, buildVars, mainVars, pad_call, heap, refs,
                   held>>

NextColor ==
    \/ \E color \in Colors24 : ColorToFireColor(color)
    \/ ColorToFireColorAgain

SpecColor == InitColor /\ [][NextColor]_vars

(***************************************************************************)
(* SpecBuild: build_control_macros applied to one document                 *)
(***************************************************************************)
InitBuild ==
    /\ build_cfg \in BuildDocuments
    /\ build_result = NotBuilt
    /\ main_pc = "off"
    /\ devices = <<>>
    /\ port_name = PyNone
    /\ input_open = FALSE
    /\ FIRE_PORT = PyNone
    /\ pads = PadsUnset
    /\ pending = <<>>
    /\ pad_call = NoPadCall
    /\ scaled = <<>>
    /\ heap = <<>>
    /\ refs = NoRefs
    /\ held = NotHeld
    /\ files = CHOOSE fs \in FileSystems : TRUE
    /\ midi_cfg = NewMacroRunner.midi_cfg
    /\ macro_cfg = NewMacroRunner.macro_cfg
    /\ macros_config_path = NewMacroRunner.macros_config_path
    /\ control_macros = NewMacroRunner.control_macros
    /\ control_colors = NewMacroRunner.control_colors
    /\ control_actions = NewMacroRunner.control_actions
    /\ config_reload_callback = "None"
    /\ last = Call("init", PyNone, NewMacroRunner, "None", EmptyMap, <<>>,
                   NoProvider, <<>>, "none")

\* build_control_macros(build_cfg)
BuildControlMacros ==
    /\ ~build_result.done
    /\ build_result' = [done |-> TRUE,
                        built |-> build_control_macros(build_cfg)]
    /\ UNCHANGED <<build_cfg, runnerVars, mainVars, pad_call, auxVars>>

NextBuild == BuildControlMacros

SpecBuild == InitBuild /\ [][NextBuild]_vars

(***************************************************************************)
(* SpecMain: the program fire_midi_macro_runner.py                         *)
(*                                                                         *)
(* main's locals midi_cfg, macro_cfg, control_macros, control_colors and   *)
(* control_actions are the variables of the same names; main constructs    *)
(* no MacroRunner and never calls macros.set_config_reload_callback, so    *)
(* config_reload_callback keeps its module value None.                     *)
(***************************************************************************)
InitMain ==
    /\ build_cfg = EmptyDict
    /\ build_result = NotBuilt
    /\ files \in MainFileSystems
    /\ devices \in DeviceLists
    /\ main_pc = "start"
    /\ port_name = PyNone
    /\ input_open = FALSE
    /\ FIRE_PORT = PyNone
    /\ pads = PadsUnset
    /\ pending = <<>>
    /\ pad_call = NoPadCall
    /\ scaled = <<>>
    /\ heap = <<>>
    /\ refs = NoRefs
    /\ held = NotHeld
    /\ midi_cfg = EmptyDict
    /\ macro_cfg = EmptyDict
    /\ macros_config_path = FallbackPath
    /\ control_macros = EmptyMap
    /\ control_colors = EmptyMap
    /\ control_actions = EmptyMap
    /\ config_reload_callback = "None"
    /\ last = Call("init", PyNone, NewMacroRunner, "None", EmptyMap, <<>>,
                   NoProvider, <<>>, "none")

AfterListing_always_chooses(cfg) ==
    IF Truthy(stored_name(cfg))
       /\ \E i \in DOMAIN devices : devices[i] = stored_name(cfg).s
    THEN "try"
    ELSE "prompt"

\* where main goes once the devices are listed
AfterListing(cfg) ==
    IF devices = <<>> THEN "returned"
    ELSE IF Truthy(stored_name(cfg))
            /\ \E i \in DOMAIN devices : devices[i] = stored_name(cfg).s
    THEN "try"
    ELSE "prompt"

\* main up to the device choice: load_json twice, build_control_macros,
\* list_devices; an exception of the build ends the program
MainLoad ==
    /\ main_pc = "start"
    /\ \E built \in {build_control_macros(load_json(files, FallbackPath))},
          cfg \in {load_json(files, MidiPath)} :
          /\ midi_cfg' = cfg
          /\ macro_cfg' = load_json(files, FallbackPath)
          /\ IF built.raised
             THEN /\ main_pc' = "crashed"
                  /\ UNCHANGED <<control_macros, control_colors,
                                 control_actions, port_name>>
             ELSE /\ control_macros' = built.control_macros
                  /\ control_colors' = built.control_colors
                  /\ control_actions' = built.control_actions
                  /\ main_pc' = AfterListing(cfg)
                  /\ port_name' = IF AfterListing(cfg) = "try"
                                  THEN stored_name(cfg) ELSE PyNone
    /\ last' = Call("main", PyNone, Self, "None", EmptyMap, <<>>, NoProvider,
                    <<>>, "none")
    /\ UNCHANGED <<files, macros_config_path, config_reload_callback,
                   buildVars, pad_call, auxVars, devices, input_open, FIRE_PORT, pads, pending>>

\* select_device returns devices[num]; main stores the name and save_json
\* writes midi_config.json, or fails to and only prints
SelectDevice(num, saved) ==
    /\ main_pc = "prompt"
    /\ port_name' = PyStr(devices[num + 1])
    /\ midi_cfg' = WithDevice(devices[num + 1])
    /\ files' = IF saved
                THEN [files EXCEPT ![MidiPath] = WithDevice(devices[num + 1])]
                ELSE files
    /\ main_pc' = "try"
    /\ last' = Call("select_device", PyInt(num), Self, "None", EmptyMap, <<>>,
                    NoProvider, <<>>, "none")
    /\ UNCHANGED <<macro_cfg, macros_config_path, control_macros,
                   control_colors, control_actions, config_reload_callback,
                   buildVars, pad_call, auxVars, devices, input_open, FIRE_PORT, pads, pending>>

\* fc.init_port(port_name)
InitPort ==
    /\ main_pc = "try"
    /\ FIRE_PORT' = port_name
    /\ pads' = init_port(pads)
    /\ main_pc' = "paint"
    /\ last' = Call("init_port", port_name, Self, "None", EmptyMap, <<>>,
                    NoProvider, <<>>, "none")
    /\ UNCHANGED <<files, midi_cfg, macro_cfg, macros_config_path,
                   control_macros, control_colors, control_actions,
                   config_reload_callback, buildVars, pad_call, auxVars, devices, port_name,
                   input_open, pending>>

\* initialize_pad_colors(control_colors)
InitializePadColors ==
    /\ main_pc = "paint"
    /\ pads' = initialize_pad_colors(pads, control_colors)
    /\ main_pc' = "monitor"
    /\ last' = Call("initialize_pad_colors", PyNone, Self, "None", EmptyMap,
                    <<>>, NoProvider, <<>>, "none")
    /\ UNCHANGED <<files, midi_cfg, macro_cfg, macros_config_path,
                   control_macros, control_colors, control_actions,
                   config_reload_callback, buildVars, pad_call, auxVars, devices, port_name,
                   input_open, FIRE_PORT, pending>>

\* monitor_device: "with mido.open_input(port_name) as port"
MonitorDevice ==
    /\ main_pc = "monitor"
    /\ input_open' = TRUE
    /\ main_pc' = "loop"
    /\ last' = Call("monitor_device", port_name, Self, "None", EmptyMap, <<>>,
                    NoProvider, <<>>, "none")
    /\ UNCHANGED <<files, midi_cfg, macro_cfg, macros_config_path,
                   control_macros, control_colors, control_actions,
                   config_reload_callback, buildVars, pad_call, auxVars, devices, port_name,
                   FIRE_PORT, pads, pending>>

\* the controller sends an event; the open input port queues it
Arrive(msg) ==
    /\ input_open
    /\ Len(pending) < MaxPending
    /\ pending' = Append(pending, msg)
    /\ UNCHANGED <<runnerVars, buildVars, main_pc, devices, port_name,
                   input_open, FIRE_PORT, pads, pad_call, auxVars>>

\* one turn of "while True": every pending event goes to handle_message
Poll ==
    /\ main_pc = "loop"
    /\ \E fails \in [DOMAIN pending -> BOOLEAN] :
       \E r \in {Drain(Handled(Self, "None", <<>>, NoProvider, <<>>, "none"),
                       files, config_reload_callback, pending, fails)} :
          /\ SetSelf(r.self)
          /\ last' = [Call("poll", pending, Self, r.outcome, EmptyMap,
                           r.invoked, r.provider, r.callback_calls, r.log)
                          EXCEPT !.error = r.error]
          /\ main_pc' = IF r.outcome = "raise" THEN "crashed" ELSE main_pc
          /\ input_open' = (r.outcome # "raise")
    /\ pending' = <<>>
    /\ UNCHANGED <<files, config_reload_callback, buildVars, pad_call, auxVars, devices,
                   port_name, FIRE_PORT, pads>>

\* Ctrl+C (last.arg records where main was): inside the try the with-block closes the input port, the except
\* prints, and the finally finds no fire_code.close_port to call; at the
\* prompt the exception is not caught
KeyboardInterrupt ==
    /\ main_pc \in {"prompt", "try", "paint", "monitor", "loop"}
    /\ main_pc' = IF main_pc = "prompt" THEN "crashed" ELSE "exited"
    /\ input_open' = FALSE
    /\ last' = Call("KeyboardInterrupt", main_pc, Self, "None", EmptyMap, <<>>,
                    NoProvider, <<>>, "none")
    /\ UNCHANGED <<files, midi_cfg, macro_cfg, macros_config_path,
                   control_macros, control_colors, control_actions,
                   config_reload_callback, buildVars, pad_call, auxVars, devices, port_name,
                   FIRE_PORT, pads, pending>>

NextMain ==
    \/ MainLoad
    \/ \E num \in 0..(Len(devices) - 1), saved \in BOOLEAN :
           SelectDevice(num, saved)
    \/ InitPort
    \/ InitializePadColors
    \/ MonitorDevice
    \/ \E msg \in MainMessages : Arrive(msg)
    \/ Poll
    \/ KeyboardInterrupt

SpecMain == InitMain /\ [][NextMain]_vars

(***************************************************************************)
(* SpecLoop: the polling loop of monitor_device handing every pending      *)
(* event to MacroRunner.handle_message, with the runner's                  *)
(* reload_configuration registered as the CONFIG| callback or not          *)
(***************************************************************************)
InitLoop ==
    /\ build_cfg = EmptyDict
    /\ build_result = NotBuilt
    /\ files \in {fs \in FileSystems : /\ fs[PreferredPath] = Missing
                                      /\ fs[PathA] \in {DocA, Missing}}
    /\ devices = <<<<"F">>>>
    /\ main_pc = "loop"
    /\ port_name = PyStr(<<"F">>)
    /\ input_open = TRUE
    /\ FIRE_PORT = PyNone
    /\ pads = PadsUnset
    /\ pending = <<>>
    /\ pad_call = NoPadCall
    /\ scaled = <<>>
    /\ heap = <<>>
    /\ refs = NoRefs
    /\ held = NotHeld
    /\ midi_cfg = NewMacroRunner.midi_cfg
    /\ macro_cfg = NewMacroRunner.macro_cfg
    /\ macros_config_path = NewMacroRunner.macros_config_path
    /\ control_macros = NewMacroRunner.control_macros
    /\ control_colors = NewMacroRunner.control_colors
    /\ control_actions = NewMacroRunner.control_actions
    /\ config_reload_callback = "None"
    /\ last = Call("init", PyNone, NewMacroRunner, "None", EmptyMap, <<>>,
                   NoProvider, <<>>, "none")

NextLoop ==
    \/ /\ LoadConfiguration(PyNone)
       /\ UNCHANGED <<buildVars, mainVars, pad_call, auxVars>>
    \/ /\ \E callback \in {"None", "reload_configuration"} :
              SetConfigReloadCallback(callback)
       /\ UNCHANGED <<buildVars, mainVars, pad_call, auxVars>>
    \/ \E msg \in LoopMessages : Arrive(msg)
    \/ Poll

SpecLoop == InitLoop /\ [][NextLoop]_vars

(***************************************************************************)
(* SpecAlias: load_configuration, reload_configuration and get_color_map   *)
(* with the dict objects tracked; held is the color map object a caller    *)
(* was handed, with the contents it had then                               *)
(***************************************************************************)
InitAlias ==
    /\ build_cfg = EmptyDict
    /\ build_result = NotBuilt
    /\ main_pc = "off"
    /\ devices = <<>>
    /\ port_name = PyNone
    /\ input_open = FALSE
    /\ FIRE_PORT = PyNone
    /\ pads = PadsUnset
    /\ pending = <<>>
    /\ pad_call = NoPadCall
    /\ scaled = <<>>
    /\ heap = NewMaps.heap
    /\ refs = NewMaps.refs
    /\ held = NotHeld
    /\ files \in {fs \in FileSystems :
                     /\ fs[PreferredPath] = DocPreferred
                     /\ fs[PathA] \in {DocA, DocBadColor, Missing}}
    /\ midi_cfg = NewMacroRunner.midi_cfg
    /\ macro_cfg = NewMacroRunner.macro_cfg
    /\ macros_config_path = NewMacroRunner.macros_config_path
    /\ control_macros = NewMacroRunner.control_macros
    /\ control_colors = NewMacroRunner.control_colors
    /\ control_actions = NewMacroRunner.control_actions
    /\ config_reload_callback = "None"
    /\ last = Call("init", PyNone, NewMacroRunner, "None", EmptyMap, <<>>,
                   NoProvider, <<>>, "none")

\* the objects after a load_configuration or reload_configuration call:
\* three new ones when the call got as far as the assignment of the build's
\* results, the same ones otherwise; with keep the caller of
\* reload_configuration holds on to the color map it was returned
Tracked(keep) ==
    \E st \in {IF last'.outcome = "True"
                THEN StoreMaps(heap, refs,
                               [control_macros |-> control_macros',
                                control_colors |-> control_colors',
                                control_actions |-> control_actions'])
                ELSE KeptMaps(heap, refs)} :
        /\ heap' = st.heap
        /\ refs' = st.refs
        /\ held' = IF keep /\ last'.outcome # "raise"
                   THEN [ref |-> st.refs.control_colors,
                         contents |-> last'.ret]
                   ELSE held

\* color_map = runner.get_color_map()
GetColorMap ==
    /\ held' = [ref |-> refs.control_colors, contents |-> get_color_map(Self)]
    /\ last' = Call("get_color_map", PyNone, Self, "None",
                    get_color_map(Self), <<>>, NoProvider, <<>>, "none")
    /\ UNCHANGED <<files, midi_cfg, macro_cfg, macros_config_path,
                   control_macros, control_colors, control_actions,
                   config_reload_callback, buildVars, mainVars, pad_call,
                   scaled, heap, refs>>

NextAlias ==
    \/ /\ Len(heap) < Len(NewMaps.heap) * (MaxSwaps + 1)
       /\ \E config_path \in LoadArgs : LoadConfiguration(config_path)
       /\ Tracked(FALSE)
       /\ UNCHANGED <<buildVars, mainVars, pad_call, scaled>>
    \/ /\ Len(heap) < Len(NewMaps.heap) * (MaxSwaps + 1)
       /\ \E config_path \in ReloadArgs : ReloadConfiguration(config_path)
       /\ \E keep \in BOOLEAN : Tracked(keep)
       /\ UNCHANGED <<buildVars, mainVars, pad_call, scaled>>
    \/ GetColorMap

SpecAlias == InitAlias /\ [][NextAlias]_vars

(***************************************************************************)
(* Properties of MacroRunner (specification Spec)                          *)
(***************************************************************************)
ReloadCalled == last.op = "reload_configuration"
LoadCalled == last.op = "load_configuration"
MessageHandled == last.op = "handle_message"

\* the path names a document that is missing, unparsable or empty
BadDocument(fs, path) ==
    \/ ~Exists(fs, path)
    \/ fs[path] \in {Garbage, EmptyDict, PyEmptyList}

MappingUnchanged ==
    /\ control_macros = last.pre.control_macros
    /\ control_colors = last.pre.control_colors
    /\ control_actions = last.pre.control_actions

\* C1: reload_configuration(path) with a path to a missing, empty or
\* unparsable document returns failure together with the pre-reload color
\* map, and get_color_map(), control_macros and control_actions are what they
\* were before the call.
C1_ReloadRollback ==
    (/\ ReloadCalled
     /\ last.arg.s # EmptyPath
     /\ BadDocument(files, last.arg.s))
    => /\ last.outcome = "False"
       /\ last.ret = last.pre.control_colors
       /\ get_color_map(Self) = last.pre.control_colors
       /\ control_macros = last.pre.control_macros
       /\ control_actions = last.pre.control_actions

\* a reload of a bad document has been rolled back over an active mapping
C1_Witness ==
    /\ ReloadCalled
    /\ last.arg.s # EmptyPath
    /\ BadDocument(files, last.arg.s)
    /\ last.pre.control_colors # EmptyMap
    /\ last.outcome = "False"

\* the reload target is a JSON object without a control_macros field
NoControlMacros(fs, path) ==
    /\ Exists(fs, path)
    /\ fs[path].t = "dict"
    /\ fs[path].control_macros = Absent

\* C3 as stated: a reload whose target document exists and parses but has
\* no control_macros field yields failure and returns the pre-reload color
\* map.
C3_Original ==
    (ReloadCalled /\ NoControlMacros(files, last.arg.s))
    => /\ last.outcome = "False"
       /\ last.ret = last.pre.control_colors

DefaultColorParses(cfg) ==
    cfg.default_color = Absent \/ ~parse_color(cfg.default_color).raised

\* C3 amended: such a reload reports failure (with the pre-reload color map,
\* which stays active) exactly when the document is the empty object; when
\* the object holds another field and its default_color, if any, parses,
\* the reload reports success and the returned and active color map is
\* empty.
C3_NoControlMacros ==
    (ReloadCalled /\ NoControlMacros(files, last.arg.s))
    => /\ (last.outcome = "False") <=> (files[last.arg.s] = EmptyDict)
       /\ last.outcome = "False"
              => /\ last.ret = last.pre.control_colors
                 /\ control_colors = last.pre.control_colors
       /\ (files[last.arg.s] # EmptyDict
           /\ DefaultColorParses(files[last.arg.s]))
              => /\ last.outcome = "True"
                 /\ last.ret = EmptyMap
                 /\ control_colors = EmptyMap

\* a reload of a non-empty object without control_macros replaced an active
\* mapping by the empty one
C3_Witness ==
    /\ ReloadCalled
    /\ NoControlMacros(files, last.arg.s)
    /\ files[last.arg.s] # EmptyDict
    /\ last.pre.control_colors # EmptyMap
    /\ last.outcome = "True"
    /\ control_colors = EmptyMap

\* C4: a load_configuration call whose selected document is missing, empty
\* or unparsable returns False, and a call that returns False leaves
\* control_macros, control_colors, control_actions and macros_config_path as
\* they were.
C4_FailedLoadFrame ==
    (/\ LoadCalled
     /\ \/ BadDocument(files, SelectedPath(last.pre, files, last.arg))
        \/ last.outcome = "False")
    => /\ last.outcome = "False"
       /\ MappingUnchanged
       /\ macros_config_path = last.pre.macros_config_path

\* a load failed over an active mapping
C4_Witness ==
    /\ LoadCalled
    /\ last.outcome = "False"
    /\ last.pre.control_macros # EmptyMap

\* the three maps are the result of one build of the document d
BuiltFrom(d, built) ==
    /\ ~built.raised
    /\ control_macros = built.control_macros
    /\ control_colors = built.control_colors
    /\ control_actions = built.control_actions

\* C5: in every reachable state control_macros, control_colors and
\* control_actions have the same key set and are the three results of one
\* build of one document (or are all still empty, as constructed).
C5_MappingConsistent ==
    /\ DOMAIN control_macros = DOMAIN control_colors
    /\ DOMAIN control_macros = DOMAIN control_actions
    /\ \/ /\ control_macros = EmptyMap
          /\ control_colors = EmptyMap
          /\ control_actions = EmptyMap
       \/ \E p \in DOMAIN files :
              /\ files[p].t = "dict"
              /\ BuiltFrom(files[p], build_control_macros(files[p]))

\* a dispatched CONFIG| action swapped the mapping inside handle_message
C5_Witness ==
    /\ MessageHandled
    /\ last.callback_calls # <<>>
    /\ last.pre.control_macros # EmptyMap
    /\ control_macros # last.pre.control_macros
    /\ control_macros # EmptyMap
    /\ macros_config_path = PathB

\* C6: handle_message invokes no action and changes nothing when the event
\* is not a note_on or its velocity is 0, for every controller-ID.
C6_NonPressIgnored ==
    (/\ MessageHandled
     /\ (last.arg.type # "note_on" \/ last.arg.velocity = 0))
    => /\ last.invoked = <<>>
       /\ last.provider = NoProvider
       /\ last.callback_calls = <<>>
       /\ last.log = "none"
       /\ Self = last.pre

\* a zero-velocity note_on for a bound controller-ID was handled
C6_Witness ==
    /\ MessageHandled
    /\ last.arg.type = "note_on"
    /\ last.arg.velocity = 0
    /\ last.arg.note \in DOMAIN last.pre.control_macros
    /\ last.pre.control_actions[last.arg.note] = ActConfigB

\* C7: a press with velocity > 0 hands sendkey exactly one action string,
\* the one the mapping active at dispatch binds to the note, when the note
\* is bound, and none (an "unused" diagnostic) when it is not.
C7_DispatchOnce ==
    (/\ MessageHandled
     /\ last.arg.type = "note_on"
     /\ last.arg.velocity > 0)
    => IF last.arg.note \in DOMAIN last.pre.control_actions
       THEN /\ last.invoked = <<last.pre.control_actions[last.arg.note]>>
            /\ last.log = "trigger"
       ELSE /\ last.invoked = <<>>
            /\ last.log = "unused"

\* a press ran a CONFIG| action that swapped the mapping, after which the
\* pressed note is bound to something else
C7_Witness ==
    /\ MessageHandled
    /\ last.arg.velocity > 0
    /\ last.invoked = <<ActConfigB>>
    /\ last.callback_calls = <<PathB>>
    /\ control_actions # last.pre.control_actions
    /\ control_actions[last.arg.note] = ActConfigA

\* C8 as stated: whenever reload_configuration(path) reports success, the
\* active mapping and the returned color map are the ones built from the
\* document stored at path.
C8_ReloadLoadsPath ==
    (ReloadCalled /\ last.outcome = "True")
    => /\ Exists(files, last.arg.s)
       /\ BuiltFrom(files[last.arg.s],
                    build_control_macros(load_json(files, last.arg.s)))
       /\ last.ret = control_colors

\* C9: reload_configuration(path) called twice in a row with the same
\* non-empty path, the first call reporting success: the second reports
\* success too and bindings, colors, source path and returned color map are
\* those the first call left.
C9_ReloadIdempotent ==
    (/\ ReloadCalled
     /\ last.again.same
     /\ last.again.outcome = "True"
     /\ last.arg.s # EmptyPath)
    => /\ last.outcome = "True"
       /\ MappingUnchanged
       /\ macros_config_path = last.pre.macros_config_path
       /\ macros_config_path = last.arg.s
       /\ last.ret = last.pre.control_colors

\* the same document was reloaded twice in a row
C9_Witness ==
    /\ ReloadCalled
    /\ last.again.same
    /\ last.again.outcome = "True"
    /\ last.arg.s = PathB
    /\ last.outcome = "True"
    /\ control_colors # EmptyMap

\* C16: when the provider or the reload callback of a dispatched action
\* fails, handle_message returns normally, and the press dispatched right
\* after a failed one still reaches the Action Executor with its action.
C16_FailureContained ==
    /\ (MessageHandled /\ last.error) => last.outcome = "None"
    /\ (/\ MessageHandled
        /\ last.after_error
        /\ last.arg.type = "note_on"
        /\ last.arg.velocity > 0
        /\ last.arg.note \in DOMAIN last.pre.control_macros)
       => /\ last.outcome = "None"
          /\ last.invoked = <<last.pre.control_macros[last.arg.note]>>
          /\ last.provider # NoProvider

\* the reload callback raised inside a dispatch, and the next press was
\* dispatched
C16_Witness ==
    /\ MessageHandled
    /\ last.after_error
    /\ last.invoked # <<>>
    /\ ~last.error
    /\ macro_cfg = DocBadColor

\* keyboard.send raised inside a dispatch
C16_WitnessProvider ==
    /\ MessageHandled
    /\ last.error
    /\ last.provider.kind = "keyboard.send"

(***************************************************************************)
(* Properties of build_control_macros (specification SpecBuild)            *)
(***************************************************************************)
\* the entry is a bare action string or an object with a string action
BindableEntry(e) == e.t = "str" \/ (e.t = "dict" /\ e.action.t = "str")

ItemsOf(cfg) ==
    IF cfg.t = "dict" /\ cfg.control_macros.t = "map"
    THEN cfg.control_macros.items ELSE <<>>

BindableItem(it) == ParseInt(it.k, 10).ok /\ BindableEntry(it.e)

\* the controller-IDs the claim says are bound
ExpectedNotes(cfg) ==
    {ParseInt(ItemsOf(cfg)[i].k, 10).v :
         i \in {j \in 1..Len(ItemsOf(cfg)) : BindableItem(ItemsOf(cfg)[j])}}

\* the document without the entries the claim says are skipped
WithoutSkipped(cfg) ==
    IF cfg.t = "dict" /\ cfg.control_macros.t = "map"
    THEN [cfg EXCEPT !.control_macros =
              Map(SelectSeq(cfg.control_macros.items, BindableItem))]
    ELSE cfg

\* C10 as stated: for every document the controller-IDs of the bindings
\* the builder produces are exactly those of the entries with an integer
\* key and a bare action string or an object with a string action, and the
\* skipped entries change no other binding (the result is that of the
\* document without them).  A build that raises produces no binding.
C10_BindingsOfValidEntries ==
    build_result.done
    => /\ DOMAIN build_result.built.control_macros = ExpectedNotes(build_cfg)
       /\ DOMAIN build_result.built.control_actions = ExpectedNotes(build_cfg)
       /\ DOMAIN build_result.built.control_colors = ExpectedNotes(build_cfg)
       /\ build_result.built = build_control_macros(WithoutSkipped(build_cfg))

\* the same for the documents on which the builder returns
BindingsOfValidEntriesWhenReturned ==
    (build_result.done /\ ~build_result.built.raised)
    => /\ DOMAIN build_result.built.control_macros = ExpectedNotes(build_cfg)
       /\ DOMAIN build_result.built.control_actions = ExpectedNotes(build_cfg)
       /\ DOMAIN build_result.built.control_colors = ExpectedNotes(build_cfg)
       /\ build_result.built = build_control_macros(WithoutSkipped(build_cfg))

\* C11 as stated: build_control_macros raises for no parsed document (a
\* JSON object), whatever its default_color, control_macros and entries.
C11_BuildNeverRaises ==
    (build_result.done /\ build_cfg.t = "dict")
    => ~build_result.built.raised

\* the document is an object whose control_macros is a mapping
HasEntries(cfg) ==
    /\ cfg.t = "dict"
    /\ cfg.control_macros # Absent
    /\ cfg.control_macros.t = "map"

\* the entry a built binding comes from: the last bindable one of its note
EntryOf(cfg, note) ==
    LET bound == {i \in DOMAIN ItemsOf(cfg) :
                     /\ BindableItem(ItemsOf(cfg)[i])
                     /\ ParseInt(ItemsOf(cfg)[i].k, 10).v = note}
    IN  ItemsOf(cfg)[CHOOSE i \in bound : \A j \in bound : j <= i].e

\* a bare action string, no color field, or a falsy color (0, "", null)
InheritsDefault(e) == e.t = "str" \/ ~Truthy(e.color)

\* what the builder resolved default_color to
ResolvedDefault(cfg) ==
    parse_color(IF cfg.default_color = Absent THEN PyStr(DefaultColorString)
                ELSE cfg.default_color).v

\* C12: in every built mapping a binding whose entry is a bare action
\* string, has no color field or has a falsy color carries the document's
\* resolved default color, and a binding whose entry has a non-empty color
\* carries that color parsed.
C12_ColorInheritance ==
    (build_result.done /\ ~build_result.built.raised /\ HasEntries(build_cfg))
    => \A note \in DOMAIN build_result.built.control_colors :
           build_result.built.control_colors[note] =
               IF InheritsDefault(EntryOf(build_cfg, note))
               THEN ResolvedDefault(build_cfg)
               ELSE parse_color(EntryOf(build_cfg, note).color).v

\* default #112233: one binding inherits it through a falsy color, another
\* carries its own 0xFF0000
C12_Witness ==
    /\ build_result.done
    /\ ~build_result.built.raised
    /\ HasEntries(build_cfg)
    /\ \E m, n \in DOMAIN build_result.built.control_colors :
           /\ EntryOf(build_cfg, m).t = "dict"
           /\ EntryOf(build_cfg, m).color \in {PyInt(0), PyStr(<<>>), PyNone}
           /\ build_result.built.control_colors[m] = PyInt(1122867)
           /\ build_result.built.control_colors[n] = PyInt(16711680)

\* the value is an integer or a string that int(..., 16) accepts
ParsesAsColor(value) ==
    \/ value.t = "int"
    \/ value.t = "str" /\ ~parse_color(value).raised

\* C13 as stated: when default_color is absent or cannot be parsed as a
\* color the build returns and every binding that inherits the default has
\* color 0xFFFFFF, never None.
C13_DefaultResolvesToWhite ==
    (/\ build_result.done
     /\ HasEntries(build_cfg)
     /\ build_cfg.default_color = Absent
        \/ ~ParsesAsColor(build_cfg.default_color))
    => /\ ~build_result.built.raised
       /\ \A note \in DOMAIN build_result.built.control_colors :
              InheritsDefault(EntryOf(build_cfg, note))
              => build_result.built.control_colors[note] = PyInt(16777215)

\* what holds instead: an absent default_color resolves to 0xFFFFFF
DefaultAbsentResolvesToWhite ==
    (/\ build_result.done
     /\ ~build_result.built.raised
     /\ HasEntries(build_cfg)
     /\ build_cfg.default_color = Absent)
    => \A note \in DOMAIN build_result.built.control_colors :
           InheritsDefault(EntryOf(build_cfg, note))
           => build_result.built.control_colors[note] = PyInt(16777215)

(***************************************************************************)
(* Properties of the program (specification SpecMain)                      *)
(***************************************************************************)
\* the path names a document that loads and builds
GoodDocument(fs, path) ==
    /\ Exists(fs, path)
    /\ fs[path].t = "dict"
    /\ DocTruthy(fs[path])
    /\ ~build_control_macros(fs[path]).raised

\* C2 as stated: once the running program has dispatched a pad press bound
\* to CONFIG|<path>, with <path> naming a document that loads and builds,
\* the active mapping is the one built from that document, and the
\* listening loop is still running.
C2_ConfigPressSwapsMapping ==
    (/\ last.op = "poll"
     /\ last.invoked # <<>>
     /\ StartsWith(last.invoked[Len(last.invoked)], ConfigPrefix)
     /\ GoodDocument(files, Drop(last.invoked[Len(last.invoked)], 7)))
    => /\ main_pc = "loop"
       /\ input_open
       /\ BuiltFrom(files[Drop(last.invoked[Len(last.invoked)], 7)],
                    build_control_macros(
                        files[Drop(last.invoked[Len(last.invoked)], 7)]))

\* what the program does instead: the press reaches macros.reload_config,
\* which finds no callback registered, and the mapping stays the one built
\* at startup
C2_PressLeavesMapping ==
    (last.op = "poll" /\ last.provider.kind = "reload_config")
    => /\ last.callback_calls = <<>>
       /\ MappingUnchanged
       /\ BuiltFrom(macro_cfg, build_control_macros(macro_cfg))

\* the bytes of black
Black == [r |-> 0, g |-> 0, b |-> 0]

\* C18 as stated: once init_port has returned, before initialize_pad_colors
\* paints anything, every pad set_pad_color accepts (54..117, pad indexes
\* 0..63) has been set to black.
C18_InitClearsEveryPad ==
    main_pc = "paint" => \A i \in 0..63 : pads[i] = Black

\* what holds instead: the pads of 54..116 are black before painting, and
\* nothing is painted before init_port has returned
InitClearsAllButLast ==
    /\ main_pc = "paint" => \A i \in 0..62 : pads[i] = Black
    /\ main_pc \in {"start", "prompt", "try"} => pads = PadsUnset

\* C20 as stated: when Ctrl+C ends the event loop, every pad has been set
\* to black and the lighting port has been released when the program exits.
C20_InterruptClearsAndReleases ==
    (main_pc = "exited" /\ last.op = "KeyboardInterrupt" /\ last.arg = "loop")
    => /\ FIRE_PORT = PyNone
       /\ \A i \in 0..63 : pads[i] = Black

\* what holds instead: the interrupt closes the input port only; the
\* lighting port stays open and the pads keep what they were last sent
InterruptLeavesLighting ==
    (main_pc = "exited" /\ last.op = "KeyboardInterrupt" /\ last.arg = "loop")
    => /\ ~input_open
       /\ FIRE_PORT = port_name
       /\ pads = initialize_pad_colors(init_port(PadsUnset), control_colors)

\* the preferred document exists and the call names no document
PreferredChosen ==
    /\ ~Truthy(last.arg)
    /\ Exists(files, last.pre.preferred_config_path)

\* C22: load_configuration reads the document at the explicit path when one
\* is given, otherwise the preferred document if it exists, otherwise the
\* document at macros_config_path; a preferred document that exists but does
\* not load makes the call fail without the fallback being read.
C22_SelectionOrder ==
    LoadCalled
    => /\ Truthy(last.arg) => macro_cfg = load_json(files, last.arg.s)
       /\ PreferredChosen
          => macro_cfg = load_json(files, last.pre.preferred_config_path)
       /\ (~Truthy(last.arg) /\ ~PreferredChosen)
          => macro_cfg = load_json(files, last.pre.macros_config_path)
       /\ (PreferredChosen
           /\ BadDocument(files, last.pre.preferred_config_path))
          => /\ last.outcome = "False"
             /\ macro_cfg = EmptyDict
             /\ MappingUnchanged
             /\ macros_config_path = last.pre.macros_config_path

\* load_configuration() found an unparsable preferred document while the
\* fallback document would have loaded
C22_Witness ==
    /\ LoadCalled
    /\ PreferredChosen
    /\ files[PreferredPath] = Garbage
    /\ last.outcome = "False"
    /\ GoodDocument(files, last.pre.macros_config_path)

\* C25 as stated: once a load has succeeded (bindings are active), after any
\* calls of load_configuration and reload_configuration with any argument,
\* macros_config_path is the path of the document the active bindings were
\* built from.
C25_PathNamesSource ==
    control_macros # EmptyMap
    => /\ Exists(files, macros_config_path)
       /\ files[macros_config_path].t = "dict"
       /\ BuiltFrom(files[macros_config_path],
                    build_control_macros(files[macros_config_path]))

\* C21: when list_devices finds no MIDI input device main returns at once:
\* no prompt, midi_config.json not written, no port opened, no pad painted,
\* the event loop never entered.
C21_NoDeviceExit ==
    (devices = <<>> /\ main_pc \notin {"start", "crashed"})
    => /\ main_pc = "returned"
       /\ last.op = "main"
       /\ files \in MainFileSystems
       /\ port_name = PyNone
       /\ FIRE_PORT = PyNone
       /\ ~input_open
       /\ pads = PadsUnset
       /\ pending = <<>>

\* main has returned for want of a device, although a device name is saved
C21_Witness ==
    /\ devices = <<>>
    /\ main_pc = "returned"
    /\ Truthy(stored_name(midi_cfg))
    /\ control_macros # EmptyMap

(***************************************************************************)
(* Properties of macros.sendkey (specification SpecSend)                   *)
(***************************************************************************)
SendKeyCalled == last.op = "sendkey"

\* key begins with the characters of prefix, compared as they are
HasPrefix(key, prefix) ==
    /\ Len(key) >= Len(prefix)
    /\ \A i \in 1..Len(prefix) : key[i] = prefix[i]

\* the text of key after its first n characters
After(key, n) == [i \in 1..(Len(key) - n) |-> key[i + n]]

\* C14: sendkey calls exactly one provider, chosen by the case-sensitive
\* prefix of the action string, with the text after the prefix; a string
\* with none of the four prefixes goes whole to key-combination injection.
C14_RouteByPrefix ==
    SendKeyCalled
    => last.provider =
           IF HasPrefix(last.arg.s, <<"R", "U", "N", "|">>)
           THEN Provider("run_program", After(last.arg.s, 4))
           ELSE IF HasPrefix(last.arg.s, <<"T", "Y", "P", "E", "|">>)
           THEN Provider("type_text", After(last.arg.s, 5))
           ELSE IF HasPrefix(last.arg.s, <<"S", "O", "U", "N", "D", "|">>)
           THEN Provider("play_sound", After(last.arg.s, 6))
           ELSE IF HasPrefix(last.arg.s, <<"C", "O", "N", "F", "I", "G", "|">>)
           THEN Provider("reload_config", After(last.arg.s, 7))
           ELSE Provider("keyboard.send", last.arg.s)

\* a lower-case "run|a" went whole to keyboard.send
C14_Witness ==
    /\ SendKeyCalled
    /\ last.arg.s = <<"r", "u", "n", "|", "a">>
    /\ last.provider = Provider("keyboard.send", <<"r", "u", "n", "|", "a">>)

\* C15: a CONFIG|<path> action calls the registered reload callback exactly
\* once, with <path>; with no callback registered it only logs an error,
\* leaves the mapping as it was and calls no other provider.
C15_ConfigCallback ==
    (SendKeyCalled /\ HasPrefix(last.arg.s, ConfigPrefix))
    => /\ last.provider.kind = "reload_config"
       /\ IF config_reload_callback = "reload_configuration"
          THEN last.callback_calls = <<After(last.arg.s, 7)>>
          ELSE /\ last.callback_calls = <<>>
               /\ last.error
               /\ MappingUnchanged
               /\ macros_config_path = last.pre.macros_config_path
               /\ macro_cfg = last.pre.macro_cfg

\* CONFIG|b sent on a loaded runner with no callback registered
C15_Witness ==
    /\ SendKeyCalled
    /\ last.arg.s = ActConfigB
    /\ config_reload_callback = "None"
    /\ control_macros # EmptyMap
    /\ last.error

\* CONFIG|b sent with the callback registered: the mapping was swapped
C15_WitnessRegistered ==
    /\ SendKeyCalled
    /\ last.arg.s = ActConfigB
    /\ config_reload_callback = "reload_configuration"
    /\ last.callback_calls = <<PathB>>
    /\ macros_config_path = PathB

(***************************************************************************)
(* Properties of fire_code.set_pad_color (specification SpecPad)           *)
(***************************************************************************)
PadCalled == pad_call.calls > 0 /\ pad_call.port_open

\* C17: on an open port set_pad_color sends nothing for a controller-ID
\* outside 54..117, and for an ID inside sends exactly one set-color
\* message, addressed to pad index ID - 54; no other pad changes.
C17_PadBand ==
    PadCalled
    => IF pad_call.padIdx >= 54 /\ pad_call.padIdx <= 117
       THEN /\ Len(pad_call.sent) = 1
            /\ pad_call.sent[1].pad = pad_call.padIdx - 54
            /\ \A i \in PadIndexes :
                   pads[i] = IF i = pad_call.padIdx - 54
                             THEN pad_call.sent[1].rgb
                             ELSE pad_call.pre[i]
       ELSE /\ pad_call.sent = <<>>
            /\ pads = pad_call.pre

\* the last ID of the band, 117, was set: one message to pad 63
C17_Witness ==
    /\ PadCalled
    /\ pad_call.padIdx = 117
    /\ Len(pad_call.sent) = 1
    /\ pad_call.sent[1].pad = 63
    /\ pads[63] # PyNone

\* C19: each channel set_pad_color transmits is floor(channel / 256 * 128)
\* of the 8-bit channel of the 24-bit input color, in R, G, B order;
\* 0xFFFFFF is sent as 127, 127, 127.
C19_ChannelScaling ==
    (PadCalled /\ pad_call.sent # <<>>)
    => /\ pad_call.sent[1].rgb =
              [r |-> ((pad_call.color \div 65536) % 256) \div 2,
               g |-> ((pad_call.color \div 256) % 256) \div 2,
               b |-> (pad_call.color % 256) \div 2]
       /\ pad_call.color = 16777215
          => pad_call.sent[1].rgb = [r |-> 127, g |-> 127, b |-> 127]

\* 0xFFFFFF was sent as 127, 127, 127
C19_Witness ==
    /\ PadCalled
    /\ pad_call.color = 16777215
    /\ pad_call.sent # <<>>
    /\ pad_call.sent[1].rgb = [r |-> 127, g |-> 127, b |-> 127]

\* C27: for every controller-ID in 54..117 and every integer color, also
\* negative or above 0xFFFFFF, the four payload bytes set_pad_color
\* transmits are 7-bit values: the pad index is in 0..63, R, G and B are in
\* 0..127.
C27_PayloadSevenBit ==
    (PadCalled /\ pad_call.padIdx \in 54..117)
    => /\ pad_call.sent # <<>>
       /\ \A i \in DOMAIN pad_call.sent :
              /\ pad_call.sent[i].pad \in 0..63
              /\ pad_call.sent[i].rgb.r \in 0..127
              /\ pad_call.sent[i].rgb.g \in 0..127
              /\ pad_call.sent[i].rgb.b \in 0..127

\* the color -0xFF0100 went out to the last pad as 0, 127, 0
C27_Witness ==
    /\ PadCalled
    /\ pad_call.padIdx = 117
    /\ pad_call.color = -16711936
    /\ pad_call.sent # <<>>
    /\ pad_call.sent[1].pad = 63
    /\ pad_call.sent[1].rgb = [r |-> 0, g |-> 127, b |-> 0]

(***************************************************************************)
(* Properties of fire_code.color_to_fire_color (specification SpecColor)   *)
(***************************************************************************)
RECURSIVE Halved(_, _)
Halved(channel, n) == IF n = 0 THEN channel ELSE Halved(channel \div 2, n - 1)

\* C23 as stated: applying color_to_fire_color twice gives the same value as
\* applying it once.
C23_Idempotent ==
    Len(scaled) >= 3 => scaled[3] = scaled[2]

\* C23: color_to_fire_color halves every channel: after n applications each
\* channel of a 24-bit color is the original one halved n times, rounding
\* down, so that a second application returns the value of the first exactly
\* when every channel of the color is 0 or 1.
C23_HalvesEachTime ==
    /\ \A n \in 1..(Len(scaled) - 1) :
           scaled[n + 1] =
               rgb_to_color(Halved(color_to_rgb(scaled[1]).r, n),
                            Halved(color_to_rgb(scaled[1]).g, n),
                            Halved(color_to_rgb(scaled[1]).b, n))
    /\ Len(scaled) >= 3
       => (scaled[3] = scaled[2]
           <=> /\ color_to_rgb(scaled[1]).r \in {0, 1}
               /\ color_to_rgb(scaled[1]).g \in {0, 1}
               /\ color_to_rgb(scaled[1]).b \in {0, 1})

\* white scaled twice: 0xFFFFFF, 0x7F7F7F, 0x3F3F3F
C23_Witness ==
    /\ Len(scaled) >= 3
    /\ scaled[1] = 16777215
    /\ scaled[2] = 8355711
    /\ scaled[3] = 4144959

(***************************************************************************)
(* Properties of the polling loop (specification SpecLoop)                 *)
(***************************************************************************)
\* the action strings msgs trigger when each is looked up in mapping
RECURSIVE DispatchedAgainst(_, _)
DispatchedAgainst(mapping, msgs) ==
    IF msgs = <<>> THEN <<>>
    ELSE (IF IsPress(msgs[1]) /\ msgs[1].note \in DOMAIN mapping
          THEN <<mapping[msgs[1].note]>> ELSE <<>>)
         \o DispatchedAgainst(mapping, Tail(msgs))

C26_MapsReplacedNotMutated ==
    [][/\ \A i \in DOMAIN heap : heap'[i] = heap[i]
       /\ held'.ref # 0 => heap'[held'.ref] = held'.contents
       /\ heap'[refs'.control_macros] = control_macros'
       /\ heap'[refs'.control_colors] = control_colors'
       /\ heap'[refs'.control_actions] = control_actions']_vars

\* a color map handed out earlier is no longer the active one and still has
\* its own contents, which differ from the active ones
C26_Witness ==
    /\ last.op \in {"load_configuration", "reload_configuration"}
    /\ held.ref # 0
    /\ held.contents # EmptyMap
    /\ held.ref # refs.control_colors
    /\ heap[held.ref] = held.contents
    /\ control_colors # held.contents

====
